---- MODULE Spec2Model ----
(***************************************************************************)
(* Answer-normalization and intent-resolution pipeline of the autofill     *)
(* backend: _normalize_intent, _is_forbidden_answer, _repair_answer and    *)
(* predict_answer of ai_service.py, and the /predict and                   *)
(* /api/patterns/upload handlers of app.py.                                *)
(*                                                                         *)
(* A Python str is a sequence of one-character strings, so that lower(),   *)
(* strip(), replace(), `in` and re.search are computed and not assumed.    *)
(* The character U+2019 is written "U2019".  A confidence is an integer    *)
(* number of hundredths (0.70 is 70).                                      *)
(***************************************************************************)
EXTENDS Integers, Sequences, FiniteSets, TLC

(***************************************************************************)
(* Python str operations                                                   *)
(***************************************************************************)
Letters ==
  {"A","B","C","D","E","F","G","H","I","J","K","L","M","N","O","P","Q","R","S","T","U","V","W","X","Y","Z",
   "a","b","c","d","e","f","g","h","i","j","k","l","m","n","o","p","q","r","s","t","u","v","w","x","y","z"}

Digits == {"0","1","2","3","4","5","6","7","8","9"}

Whitespace == {" ", "\t", "\n"}

\* the lower-case letter of an upper-case one, every other character itself
LowerChar(c) ==
  CASE c = "A" -> "a" [] c = "B" -> "b" [] c = "C" -> "c" [] c = "D" -> "d" [] c = "E" -> "e"
    [] c = "F" -> "f" [] c = "G" -> "g" [] c = "H" -> "h" [] c = "I" -> "i" [] c = "J" -> "j"
    [] c = "K" -> "k" [] c = "L" -> "l" [] c = "M" -> "m" [] c = "N" -> "n" [] c = "O" -> "o"
    [] c = "P" -> "p" [] c = "Q" -> "q" [] c = "R" -> "r" [] c = "S" -> "s" [] c = "T" -> "t"
    [] c = "U" -> "u" [] c = "V" -> "v" [] c = "W" -> "w" [] c = "X" -> "x" [] c = "Y" -> "y"
    [] c = "Z" -> "z" [] OTHER -> c

\* str.lower()
StrLower(s) == [i \in 1..Len(s) |-> LowerChar(s[i])]

SetMin(S) == CHOOSE x \in S : \A y \in S : x <= y

SetMax(S) == CHOOSE x \in S : \A y \in S : x >= y

\* str.strip()
StrStrip(s) ==
  LET keep == {i \in 1..Len(s) : s[i] \notin Whitespace}
  IN IF keep = {} THEN <<>> ELSE SubSeq(s, SetMin(keep), SetMax(keep))

\* sub in s
StrIn(sub, s) ==
  \E i \in 0..(Len(s) - Len(sub)) : SubSeq(s, i + 1, i + Len(sub)) = sub

\* s.replace(c, "") for every one-character c of chars
StrRemove(s, chars) == SelectSeq(s, LAMBDA c : c \notin chars)

(***************************************************************************)
(* Python values as json.loads produces them.  t is the type; s the text   *)
(* of a str; n the value of a number in hundredths, or the length of a     *)
(* list.  "absent" stands for a key the object does not have.              *)
(***************************************************************************)
PyAbsent == [t |-> "absent", s |-> <<>>, n |-> 0]

PyNone == [t |-> "none", s |-> <<>>, n |-> 0]

PyNaN == [t |-> "nan", s |-> <<>>, n |-> 0]

PyStr(s) == [t |-> "str", s |-> s, n |-> 0]

PyNum(n) == [t |-> "num", s |-> <<>>, n |-> n]

PyList(n) == [t |-> "list", s |-> <<>>, n |-> n]

\* dict.get(key): None for a missing key
DictGet(v) == IF v.t = "absent" THEN PyNone ELSE v

\* dict.get(key, default)
DictGetDefault(v, default) == IF v.t = "absent" THEN default ELSE v

\* bool(v); bool(nan) is True
Truthy(v) ==
  CASE v.t = "str" -> v.s # <<>>
    [] v.t = "num" -> v.n # 0
    [] v.t = "list" -> v.n # 0
    [] v.t = "nan" -> TRUE
    [] OTHER -> FALSE

(***************************************************************************)
(* Intent policy                                                           *)
(***************************************************************************)
ALLOWED_INTENTS ==
  { <<"p","e","r","s","o","n","a","l",".","f","i","r","s","t","N","a","m","e">>, <<"p","e","r","s","o","n","a","l",".","l","a","s","t","N","a","m","e">>, <<"p","e","r","s","o","n","a","l",".","e","m","a","i","l">>, <<"p","e","r","s","o","n","a","l",".","p","h","o","n","e">>,
    <<"p","e","r","s","o","n","a","l",".","l","i","n","k","e","d","i","n">>, <<"p","e","r","s","o","n","a","l",".","c","i","t","y">>, <<"p","e","r","s","o","n","a","l",".","s","t","a","t","e">>, <<"p","e","r","s","o","n","a","l",".","c","o","u","n","t","r","y">>,
    <<"p","e","r","s","o","n","a","l",".","d","e","s","i","r","e","d","S","a","l","a","r","y">>, <<"p","e","r","s","o","n","a","l",".","a","d","d","i","t","i","o","n","a","l","I","n","f","o">>, <<"e","x","p","e","r","i","e","n","c","e",".","w","h","y","F","i","t">>,
    <<"e","x","p","e","r","i","e","n","c","e",".","s","u","m","m","a","r","y">>, <<"w","o","r","k","A","u","t","h","o","r","i","z","a","t","i","o","n",".","a","u","t","h","o","r","i","z","e","d","U","S">>,
    <<"w","o","r","k","A","u","t","h","o","r","i","z","a","t","i","o","n",".","n","e","e","d","s","S","p","o","n","s","o","r","s","h","i","p">>, <<"e","e","o",".","g","e","n","d","e","r">>, <<"e","e","o",".","r","a","c","e">>, <<"e","e","o",".","v","e","t","e","r","a","n">>,
    <<"e","e","o",".","d","i","s","a","b","i","l","i","t","y">>, <<"u","n","k","n","o","w","n">> }

\* the dict as its items <<key, value>>
INTENT_NORMALIZATION ==
  << << <<"e","x","p","e","r","i","e","n","c","e">>, <<"e","x","p","e","r","i","e","n","c","e",".","s","u","m","m","a","r","y">> >>,
     << <<"w","h","y","_","f","i","t">>, <<"e","x","p","e","r","i","e","n","c","e",".","w","h","y","F","i","t">> >>,
     << <<"w","h","y","f","i","t">>, <<"e","x","p","e","r","i","e","n","c","e",".","w","h","y","F","i","t">> >>,
     << <<"p","e","r","s","o","n","a","l",".","a","d","d","i","t","i","o","n","a","l","i","n","f","o">>, <<"p","e","r","s","o","n","a","l",".","a","d","d","i","t","i","o","n","a","l","I","n","f","o">> >>,
     << <<"a","d","d","i","t","i","o","n","a","l","i","n","f","o">>, <<"p","e","r","s","o","n","a","l",".","a","d","d","i","t","i","o","n","a","l","I","n","f","o">> >>,
     << <<"s","a","l","a","r","y">>, <<"p","e","r","s","o","n","a","l",".","d","e","s","i","r","e","d","S","a","l","a","r","y">> >>,
     << <<"p","e","r","s","o","n","a","l",".","s","a","l","a","r","y">>, <<"p","e","r","s","o","n","a","l",".","d","e","s","i","r","e","d","S","a","l","a","r","y">> >>,
     << <<"p","e","r","s","o","n","a","l",".","d","e","s","i","r","e","d","s","a","l","a","r","y">>, <<"p","e","r","s","o","n","a","l",".","d","e","s","i","r","e","d","S","a","l","a","r","y">> >> >>

\* key in d, for a dict given as its items
ItemsHas(d, k) == \E i \in 1..Len(d) : d[i][1] = k

\* d[key]
ItemsGet(d, k) == d[CHOOSE i \in 1..Len(d) : d[i][1] = k][2]

\* IntentFromQuestion without its final fallback to "unknown"
IntentFromQuestionNoFallback(question) ==
  LET q == StrLower(question)
  IN IF StrIn(<<"s","a","l","a","r","y">>, q) \/ StrIn(<<"c","o","m","p","e","n","s","a","t","i","o","n">>, q) \/ StrIn(<<"p","a","y">>, q)
       THEN <<"p","e","r","s","o","n","a","l",".","d","e","s","i","r","e","d","S","a","l","a","r","y">>
     ELSE IF StrIn(<<"a","n","y","t","h","i","n","g"," ","e","l","s","e">>, q) \/ StrIn(<<"a","d","d","i","t","i","o","n","a","l">>, q) \/ StrIn(<<"k","n","o","w"," ","a","b","o","u","t"," ","y","o","u">>, q)
       THEN <<"p","e","r","s","o","n","a","l",".","a","d","d","i","t","i","o","n","a","l","I","n","f","o">>
     ELSE IF StrIn(<<"s","t","r","o","n","g"," ","f","i","t">>, q) \/ StrIn(<<"w","h","y"," ","y","o","u">>, q) \/ StrIn(<<"w","h","y"," ","s","h","o","u","l","d"," ","w","e"," ","h","i","r","e">>, q)
       THEN <<"e","x","p","e","r","i","e","n","c","e",".","w","h","y","F","i","t">>
     ELSE <<>>

\* IntentFromQuestion testing the additional-info keywords before the salary ones
IntentFromQuestionAdditionalFirst(question) ==
  LET q == StrLower(question)
  IN IF StrIn(<<"a","n","y","t","h","i","n","g"," ","e","l","s","e">>, q) \/ StrIn(<<"a","d","d","i","t","i","o","n","a","l">>, q) \/ StrIn(<<"k","n","o","w"," ","a","b","o","u","t"," ","y","o","u">>, q)
       THEN <<"p","e","r","s","o","n","a","l",".","a","d","d","i","t","i","o","n","a","l","I","n","f","o">>
     ELSE IF StrIn(<<"s","a","l","a","r","y">>, q) \/ StrIn(<<"c","o","m","p","e","n","s","a","t","i","o","n">>, q) \/ StrIn(<<"p","a","y">>, q)
       THEN <<"p","e","r","s","o","n","a","l",".","d","e","s","i","r","e","d","S","a","l","a","r","y">>
     ELSE IF StrIn(<<"s","t","r","o","n","g"," ","f","i","t">>, q) \/ StrIn(<<"w","h","y"," ","y","o","u">>, q) \/ StrIn(<<"w","h","y"," ","s","h","o","u","l","d"," ","w","e"," ","h","i","r","e">>, q)
       THEN <<"e","x","p","e","r","i","e","n","c","e",".","w","h","y","F","i","t">>
     ELSE <<"u","n","k","n","o","w","n">>

\* the heuristic inference from the question text, and the fallback
IntentFromQuestion(question) ==
  LET q == StrLower(question)
  IN IF StrIn(<<"s","a","l","a","r","y">>, q) \/ StrIn(<<"c","o","m","p","e","n","s","a","t","i","o","n">>, q) \/ StrIn(<<"p","a","y">>, q)
       THEN <<"p","e","r","s","o","n","a","l",".","d","e","s","i","r","e","d","S","a","l","a","r","y">>
     ELSE IF StrIn(<<"a","n","y","t","h","i","n","g"," ","e","l","s","e">>, q) \/ StrIn(<<"a","d","d","i","t","i","o","n","a","l">>, q) \/ StrIn(<<"k","n","o","w"," ","a","b","o","u","t"," ","y","o","u">>, q)
       THEN <<"p","e","r","s","o","n","a","l",".","a","d","d","i","t","i","o","n","a","l","I","n","f","o">>
     ELSE IF StrIn(<<"s","t","r","o","n","g"," ","f","i","t">>, q) \/ StrIn(<<"w","h","y"," ","y","o","u">>, q) \/ StrIn(<<"w","h","y"," ","s","h","o","u","l","d"," ","w","e"," ","h","i","r","e">>, q)
       THEN <<"e","x","p","e","r","i","e","n","c","e",".","w","h","y","F","i","t">>
     ELSE <<"u","n","k","n","o","w","n">>

\* _normalize_intent on a str intent ("" when the intent given is falsy)
NormalizeIntentStr(intent, question) ==
  LET raw == StrStrip(intent)
      key == StrRemove(StrLower(raw), {" ", "-", "_"})
  IN IF raw \in ALLOWED_INTENTS THEN raw
     ELSE IF ItemsHas(INTENT_NORMALIZATION, key) THEN ItemsGet(INTENT_NORMALIZATION, key)
     ELSE IntentFromQuestion(question)

\* intent.strip() raises AttributeError for a truthy value that is no str
NormalizeIntentRaises(intent) == Truthy(intent) /\ intent.t # "str"

\* _normalize_intent(intent, question), where it does not raise
_normalize_intent(intent, question) ==
  NormalizeIntentStr(IF Truthy(intent) THEN intent.s ELSE <<>>, question)

(***************************************************************************)
(* Forbidden answers.  A pattern is the text of the regular expression as  *)
(* the source spells it; ReParse reads it as the re module does: a         *)
(* backslash followed by a backslash is a literal backslash, a backslash   *)
(* followed by b is a word boundary, and ? makes the item before it        *)
(* optional.                                                               *)
(***************************************************************************)
FORBIDDEN_ANSWER_PATTERNS ==
  << <<"\\","\\","b","n","o","t"," ","p","r","o","v","i","d","e","d","\\","\\","b">>, <<"\\","\\","b","i"," ","d","o","n","'","t"," ","k","n","o","w","\\","\\","b">>, <<"\\","\\","b","d","o"," ","n","o","t"," ","k","n","o","w","\\","\\","b">>, <<"\\","\\","b","n","/","?","a","\\","\\","b">>,
     <<"\\","\\","b","f","r","e","e"," ","t","e","x","t"," ","i","n","p","u","t","\\","\\","b">>, <<"\\","\\","b","n","o"," ","a","d","d","i","t","i","o","n","a","l"," ","i","n","f","o","r","m","a","t","i","o","n","\\","\\","b">>, <<"\\","\\","b","n","o","t","h","i","n","g"," ","t","o"," ","a","d","d","\\","\\","b">>,
     <<"\\","\\","b","n","o","t"," ","s","u","r","e","\\","\\","b">> >>

ReLit(c) == [k |-> "lit", c |-> c, opt |-> FALSE]

ReBoundary == [k |-> "wb", c |-> "", opt |-> FALSE]

RECURSIVE ReParseFrom(_, _)
ReParseFrom(p, i) ==
  IF i > Len(p) THEN <<>>
  ELSE LET esc == p[i] = "\\" /\ i < Len(p)
           item == IF esc THEN (IF p[i + 1] = "b" THEN ReBoundary ELSE ReLit(p[i + 1]))
                   ELSE ReLit(p[i])
           j == IF esc THEN i + 2 ELSE i + 1
       IN IF j <= Len(p) /\ p[j] = "?"
            THEN <<[item EXCEPT !.opt = TRUE]>> \o ReParseFrom(p, j + 1)
            ELSE <<item>> \o ReParseFrom(p, j)

ReParse(p) == ReParseFrom(p, 1)

IsWordChar(c) == c \in Letters \/ c \in Digits \/ c = "_"

\* \b between s[pos - 1] and s[pos]
AtWordBoundary(s, pos) ==
  LET before == pos > 1 /\ IsWordChar(s[pos - 1])
      after == pos <= Len(s) /\ IsWordChar(s[pos])
  IN before # after

RECURSIVE ReMatchAt(_, _, _, _)
ReMatchAt(items, i, s, pos) ==
  IF i > Len(items) THEN TRUE
  ELSE IF items[i].k = "wb" THEN AtWordBoundary(s, pos) /\ ReMatchAt(items, i + 1, s, pos)
  ELSE \/ /\ pos <= Len(s)
          /\ LowerChar(s[pos]) = LowerChar(items[i].c)
          /\ ReMatchAt(items, i + 1, s, pos + 1)
       \/ /\ items[i].opt
          /\ ReMatchAt(items, i + 1, s, pos)

\* the patterns as re compiles them
ForbiddenCompiled ==
  [i \in 1..Len(FORBIDDEN_ANSWER_PATTERNS) |-> ReParse(FORBIDDEN_ANSWER_PATTERNS[i])]

\* re.search(pat, s, flags=re.IGNORECASE) is not None, pat compiled to items
ReSearch(items, s) == \E pos \in 1..(Len(s) + 1) : ReMatchAt(items, 1, s, pos)

_is_forbidden_answer(ans) ==
  LET s == StrLower(StrStrip(ans))
  IN \/ s = <<>>
     \/ \E i \in 1..Len(ForbiddenCompiled) : ReSearch(ForbiddenCompiled[i], s)

(***************************************************************************)
(* Answer repair                                                           *)
(***************************************************************************)
REPAIR_PREF ==
  << <<"P","r","e","f","e","r"," ","n","o","t"," ","t","o"," ","s","a","y">>, <<"D","e","c","l","i","n","e"," ","t","o"," ","a","n","s","w","e","r">>, <<"D","e","c","l","i","n","e"," ","t","o"," ","s","t","a","t","e">>, <<"P","r","e","f","e","r"," ","n","o","t"," ","t","o"," ","d","i","s","c","l","o","s","e">> >>

SALARY_FALLBACK ==
  <<"O","p","e","n"," ","t","o"," ","a"," ","c","o","m","p","e","t","i","t","i","v","e"," ","s","a","l","a","r","y"," ","a","l","i","g","n","e","d"," ","w","i","t","h"," ","t","h","e"," ","r","o","l","e"," ","s","c","o","p","e",","," ","m","a","r","k","e","t"," ","s","t","a","n","d","a","r","d","s",","," ","a","n","d"," ","t","o","t","a","l"," ","c","o","m","p","e","n","s","a","t","i","o","n",".">>

ADDITIONAL_FALLBACK ==
  <<"I","U2019","m"," ","g","e","n","u","i","n","e","l","y"," ","e","x","c","i","t","e","d"," ","a","b","o","u","t"," ","t","h","i","s"," ","o","p","p","o","r","t","u","n","i","t","y"," ","a","n","d"," ","w","o","u","l","d"," ","w","e","l","c","o","m","e"," ","t","h","e"," ","c","h","a","n","c","e"," ","t","o"," ","d","i","s","c","u","s","s"," ","h","o","w"," ","I"," ","c","a","n"," ","c","o","n","t","r","i","b","u","t","e","."," ","I","U2019","m"," ","q","u","i","c","k"," ","t","o"," ","l","e","a","r","n",","," ","d","e","p","e","n","d","a","b","l","e",","," ","a","n","d"," ","c","o","m","m","i","t","t","e","d"," ","t","o"," ","d","e","l","i","v","e","r","i","n","g"," ","h","i","g","h","-","q","u","a","l","i","t","y"," ","w","o","r","k",".">>

WHYFIT_FALLBACK ==
  <<"I","U2019","m"," ","a"," ","s","t","r","o","n","g"," ","f","i","t"," ","b","e","c","a","u","s","e"," ","I"," ","b","r","i","n","g"," ","c","o","n","s","i","s","t","e","n","t"," ","e","x","e","c","u","t","i","o","n",","," ","c","l","e","a","r"," ","c","o","m","m","u","n","i","c","a","t","i","o","n",","," ","a","n","d"," ","a"," ","p","r","a","c","t","i","c","a","l"," ","m","i","n","d","s","e","t","."," ","I"," ","f","o","c","u","s"," ","o","n"," ","u","n","d","e","r","s","t","a","n","d","i","n","g"," ","r","e","q","u","i","r","e","m","e","n","t","s"," ","q","u","i","c","k","l","y",","," ","d","e","l","i","v","e","r","i","n","g"," ","r","e","l","i","a","b","l","e"," ","o","u","t","c","o","m","e","s",","," ","a","n","d"," ","c","o","l","l","a","b","o","r","a","t","i","n","g"," ","w","e","l","l"," ","w","i","t","h"," ","t","e","a","m","s"," ","t","o"," ","m","o","v","e"," ","w","o","r","k"," ","f","o","r","w","a","r","d"," ","e","f","f","i","c","i","e","n","t","l","y",".">>

GENERIC_FALLBACK ==
  <<"I","U2019","m"," ","e","x","c","i","t","e","d"," ","a","b","o","u","t"," ","t","h","i","s"," ","r","o","l","e"," ","a","n","d"," ","c","o","n","f","i","d","e","n","t"," ","I"," ","c","a","n"," ","a","d","d"," ","v","a","l","u","e"," ","t","h","r","o","u","g","h"," ","s","t","r","o","n","g"," ","o","w","n","e","r","s","h","i","p",","," ","a","d","a","p","t","a","b","i","l","i","t","y",","," ","a","n","d"," ","a"," ","r","e","s","u","l","t","s","-","d","r","i","v","e","n"," ","a","p","p","r","o","a","c","h","."," ","I","U2019","m"," ","r","e","a","d","y"," ","t","o"," ","c","o","n","t","r","i","b","u","t","e"," ","f","r","o","m"," ","d","a","y"," ","o","n","e",".">>

\* request.options: None, or a list of str
NoOptions == [none |-> TRUE, items |-> <<>>]

Options(items) == [none |-> FALSE, items |-> items]

\* bool(options)
HasOptions(options) == ~options.none /\ Len(options.items) > 0

\* x in options
InOptions(x, options) == \E i \in 1..Len(options.items) : options.items[i] = x

\* the option the nested loops over pref and options return first, if any
PreferredHits(items) ==
  {h \in (1..Len(REPAIR_PREF)) \X (1..Len(items)) :
     StrLower(StrStrip(items[h[2]])) = StrLower(REPAIR_PREF[h[1]])}

\* FirstHit taking the options in list order before the preferences
FirstHitOptionOrder(hits) ==
  CHOOSE h \in hits : \A g \in hits : h[2] < g[2] \/ (h[2] = g[2] /\ h[1] <= g[1])

FirstHit(hits) ==
  CHOOSE h \in hits : \A g \in hits : h[1] < g[1] \/ (h[1] = g[1] /\ h[2] <= g[2])

_repair_answer(question, options, intent) ==
  LET q == StrLower(question)
  IN IF HasOptions(options)
       THEN LET hits == PreferredHits(options.items)
            IN IF hits # {} THEN options.items[FirstHit(hits)[2]] ELSE options.items[1]
     ELSE IF intent = <<"p","e","r","s","o","n","a","l",".","d","e","s","i","r","e","d","S","a","l","a","r","y">> \/ StrIn(<<"s","a","l","a","r","y">>, q) \/ StrIn(<<"c","o","m","p","e","n","s","a","t","i","o","n">>, q)
       THEN SALARY_FALLBACK
     ELSE IF intent = <<"p","e","r","s","o","n","a","l",".","a","d","d","i","t","i","o","n","a","l","I","n","f","o">> \/ StrIn(<<"a","n","y","t","h","i","n","g"," ","e","l","s","e">>, q) \/ StrIn(<<"a","d","d","i","t","i","o","n","a","l">>, q)
       THEN ADDITIONAL_FALLBACK
     ELSE IF intent = <<"e","x","p","e","r","i","e","n","c","e",".","w","h","y","F","i","t">> \/ StrIn(<<"s","t","r","o","n","g"," ","f","i","t">>, q) \/ StrIn(<<"w","h","y"," ","s","h","o","u","l","d">>, q)
       THEN WHYFIT_FALLBACK
     ELSE GENERIC_FALLBACK

(***************************************************************************)
(* predict_answer                                                          *)
(***************************************************************************)
\* a Python float: nan, or v hundredths
Float(v) == [nan |-> FALSE, v |-> v]

FloatNaN == [nan |-> TRUE, v |-> 0]

\* a < b; every comparison with nan is False
FloatLess(a, b) == ~a.nan /\ ~b.nan /\ a.v < b.v

\* min(a, b): a, unless b < a
PyMin(a, b) == IF FloatLess(b, a) THEN b ELSE a

\* max(a, b): a, unless b > a
PyMax(a, b) == IF FloatLess(a, b) THEN b ELSE a

\* the text of a number "D.DD", the form the prompt asks a confidence in
IsDecimalText(s) ==
  Len(s) = 4 /\ s[1] \in Digits /\ s[2] = "." /\ s[3] \in Digits /\ s[4] \in Digits

DigitValue(c) == CHOOSE d \in 0..9 : <<"0","1","2","3","4","5","6","7","8","9">>[d + 1] = c

\* float(raw_conf) raises for None, a list, and a str that spells no number
FloatRaises(v) ==
  \/ v.t \in {"none", "list", "absent"}
  \/ v.t = "str" /\ ~IsDecimalText(StrStrip(v.s))

\* float(raw_conf), where it does not raise
ToFloat(v) ==
  CASE v.t = "nan" -> FloatNaN
    [] v.t = "num" -> Float(v.n)
    [] v.t = "str" ->
         LET s == StrStrip(v.s)
         IN Float(100 * DigitValue(s[1]) + 10 * DigitValue(s[3]) + DigitValue(s[4]))

\* lines 325-329: coerce, default 0.75, clamp to [0.70, 0.99]
ClampConfidence(raw_conf) ==
  LET conf == IF FloatRaises(raw_conf) THEN Float(75) ELSE ToFloat(raw_conf)
  IN PyMax(Float(70), PyMin(conf, Float(99))).v

IntMax(a, b) == IF b > a THEN b ELSE a

\* the text the model returns, as the pieces that matter to the parser
Piece(k, v) == [k |-> k, v |-> v]

\* a JSON document: an object with the four keys the prompt asks for (each
\* possibly absent), or a value of another type
JsonObject(answer, confidence, reasoning, intent) ==
  [t |-> "dict", answer |-> answer, confidence |-> confidence,
   reasoning |-> reasoning, intent |-> intent]

JsonOther(t) ==
  [t |-> t, answer |-> PyAbsent, confidence |-> PyAbsent,
   reasoning |-> PyAbsent, intent |-> PyAbsent]

NoJson == JsonOther("none")

\* content_text.replace(FENCE + "json", "").replace(FENCE, "").strip(), FENCE
\* being the three backquotes of a code fence
CleanText(content_text) ==
  LET unfenced == SelectSeq(content_text, LAMBDA p : p.k \notin {"fence_json", "fence"})
      keep == {i \in 1..Len(unfenced) : unfenced[i].k # "ws"}
  IN IF keep = {} THEN <<>> ELSE SubSeq(unfenced, SetMin(keep), SetMax(keep))

\* json.loads raises JSONDecodeError unless the text is one JSON document
JsonDecodeError(clean_text) == ~(Len(clean_text) = 1 /\ clean_text[1].k = "json")

JsonLoads(clean_text) == clean_text[1].v

PyTypeName(t) ==
  CASE t = "list" -> <<"l","i","s","t">>
    [] t = "str" -> <<"s","t","r">>
    [] t = "num" -> <<"i","n","t">>
    [] t = "nan" -> <<"f","l","o","a","t">>
    [] OTHER -> <<"N","o","n","e","T","y","p","e">>

NoAttribute(t, attr) == <<"'">> \o PyTypeName(t) \o <<"'"," ","o","b","j","e","c","t"," ","h","a","s"," ","n","o"," ","a","t","t","r","i","b","u","t","e"," ","'">> \o attr \o <<"'">>

AIResponse(answer, confidence, reasoning, intent) ==
  [answer |-> answer, confidence |-> confidence, reasoning |-> reasoning, intent |-> intent]

\* what predict_answer did: the response, the return statement that gave it,
\* and the number of invoke_model calls made
Outcome(response, path, calls) ==
  [response |-> response, path |-> path, calls |-> calls, e |-> <<>>]

NoResponse == AIResponse(<<>>, 0, <<>>, <<>>)

\* predict_answer was not called
NoOutcome == Outcome(NoResponse, "none", 0)

\* an exception with message e leaves the try block
Raise(e, calls) ==
  [response |-> NoResponse, path |-> "raise", calls |-> calls, e |-> e]

\* lines 383-389
ServiceError(e, calls) ==
  Outcome(AIResponse(<<>>, 0, <<"A","W","S"," ","E","r","r","o","r",":"," ">> \o e, <<"u","n","k","n","o","w","n">>), "except", calls)

synonym_map ==
  << << <<"m","a","l","e">>, << <<"m","a","n">>, <<"c","i","s","g","e","n","d","e","r"," ","m","a","l","e">>, <<"c","i","s"," ","m","a","l","e">> >> >>,
     << <<"f","e","m","a","l","e">>, << <<"w","o","m","a","n">>, <<"c","i","s","g","e","n","d","e","r"," ","f","e","m","a","l","e">>, <<"c","i","s"," ","f","e","m","a","l","e">> >> >>,
     << <<"m","a","n">>, << <<"m","a","l","e">>, <<"c","i","s","g","e","n","d","e","r"," ","m","a","l","e">>, <<"c","i","s"," ","m","a","l","e">> >> >>,
     << <<"w","o","m","a","n">>, << <<"f","e","m","a","l","e">>, <<"c","i","s","g","e","n","d","e","r"," ","f","e","m","a","l","e">>, <<"c","i","s"," ","f","e","m","a","l","e">> >> >>,
     << <<"n","o","n","-","b","i","n","a","r","y">>, << <<"n","o","n","b","i","n","a","r","y">>, <<"g","e","n","d","e","r","q","u","e","e","r">>, <<"g","e","n","d","e","r"," ","n","o","n","-","c","o","n","f","o","r","m","i","n","g">>, <<"g","e","n","d","e","r"," ","n","o","n","-","b","i","n","a","r","y">>, <<"n","o","n","-","b","i","n","a","r","y","/","n","o","n","-","c","o","n","f","o","r","m","i","n","g">> >> >>,
     << <<"y","e","s">>, << <<"y">>, <<"t","r","u","e">>, <<"i"," ","d","o">>, <<"a","u","t","h","o","r","i","z","e","d">> >> >>,
     << <<"n","o">>, << <<"n">>, <<"f","a","l","s","e">>, <<"i"," ","d","o"," ","n","o","t">>, <<"n","o","t"," ","a","u","t","h","o","r","i","z","e","d">> >> >> >>

RECURSIVE SortedSeq(_)
SortedSeq(S) == IF S = {} THEN <<>> ELSE <<SetMin(S)>> \o SortedSeq(S \ {SetMin(S)})

\* {o.lower().strip(): o for o in options} as its items: a key keeps the
\* place of its first insertion and the value of its last
LowerMap(items) ==
  LET key(i) == StrStrip(StrLower(items[i]))
      first == SortedSeq({i \in 1..Len(items) : \A j \in 1..(i - 1) : key(j) # key(i)})
      last(i) == SetMax({j \in 1..Len(items) : key(j) = key(i)})
  IN [n \in 1..Len(first) |-> <<key(first[n]), items[last(first[n])]>>]

\* MatchOption returning the lower-cased key in place of the option it maps to
MatchOptionKey(raw_answer, options) ==
  IF ItemsHas(LowerMap(options.items), StrStrip(StrLower(raw_answer)))
    THEN StrStrip(StrLower(raw_answer))
    ELSE <<>>

\* line 342: lower_map.get(raw_answer.lower().strip())
ExactMatch(ans_lower, lower_map) ==
  IF ItemsHas(lower_map, ans_lower) THEN ItemsGet(lower_map, ans_lower) ELSE <<>>

\* the option of the first synonym in syns that is a key of lower_map
FirstSynonym(syns, lower_map) ==
  LET hits == {i \in 1..Len(syns) : ItemsHas(lower_map, syns[i])}
  IN IF hits = {} THEN <<>> ELSE ItemsGet(lower_map, syns[SetMin(hits)])

\* lines 345-359
SynonymMatch(ans_lower, lower_map) ==
  IF ItemsHas(synonym_map, ans_lower)
    THEN FirstSynonym(ItemsGet(synonym_map, ans_lower), lower_map)
    ELSE <<>>

\* lines 362-365
SubstringMatch(answer_lower, lower_map) ==
  LET hits == {i \in 1..Len(lower_map) :
                 StrIn(lower_map[i][1], answer_lower) \/ StrIn(answer_lower, lower_map[i][1])}
  IN IF hits = {} THEN <<>> ELSE lower_map[SetMin(hits)][2]

\* the first of three candidates that is truthy
FirstTruthy(a, b, c) == IF a # <<>> THEN a ELSE IF b # <<>> THEN b ELSE c

\* lines 341-365, lower_map built
MatchInMap(raw_answer, lower_map) ==
  FirstTruthy(ExactMatch(StrStrip(StrLower(raw_answer)), lower_map),
              SynonymMatch(StrStrip(StrLower(raw_answer)), lower_map),
              SubstringMatch(StrLower(raw_answer), lower_map))

\* lines 341-365: the candidate, "" where the code has None or ""
MatchOption(raw_answer, options) == MatchInMap(raw_answer, LowerMap(options.items))

\* lines 373-381
FinalReturn(answer, conf, raw_reason, intent) ==
  Outcome(AIResponse(answer,
                     conf,
                     IF raw_reason # <<>> THEN raw_reason
                       ELSE <<"A","n","s","w","e","r"," ","c","h","o","s","e","n"," ","t","o"," ","m","a","x","i","m","i","z","e"," ","h","i","r","i","n","g"," ","c","h","a","n","c","e","s",".">>,
                     IF intent \notin ALLOWED_INTENTS THEN <<"u","n","k","n","o","w","n">> ELSE intent),
          "final", 1)

\* lines 367-371
UseCandidate(request, candidate, conf, raw_reason, intent) ==
  IF candidate # <<>>
    THEN FinalReturn(candidate, conf, raw_reason, intent)
    ELSE FinalReturn(_repair_answer(request.question, request.options, intent),
                     IntMax(conf, 75), raw_reason, intent)

\* Resolve sending every answer to the Repairer when options are given
ResolveWithoutMembership(request, raw_answer, conf, raw_reason, intent) ==
  IF _is_forbidden_answer(raw_answer)
    THEN Outcome(AIResponse(_repair_answer(request.question, request.options, intent),
                            IntMax(conf, 75),
                            <<"R","e","p","a","i","r","e","d"," ","a","n","s","w","e","r"," ","t","o"," ","a","v","o","i","d"," ","p","l","a","c","e","h","o","l","d","e","r","s",".">>,
                            intent), "repaired", 1)
  ELSE IF HasOptions(request.options)
    THEN UseCandidate(request, <<>>, conf, raw_reason, intent)
  ELSE FinalReturn(raw_answer, conf, raw_reason, intent)

\* lines 331-381
Resolve(request, raw_answer, conf, raw_reason, intent) ==
  IF _is_forbidden_answer(raw_answer)
    THEN Outcome(AIResponse(_repair_answer(request.question, request.options, intent),
                            IntMax(conf, 75),
                            <<"R","e","p","a","i","r","e","d"," ","a","n","s","w","e","r"," ","t","o"," ","a","v","o","i","d"," ","p","l","a","c","e","h","o","l","d","e","r","s",".">>,
                            intent), "repaired", 1)
  ELSE IF HasOptions(request.options) /\ ~InOptions(raw_answer, request.options)
    THEN UseCandidate(request, MatchOption(raw_answer, request.options), conf, raw_reason, intent)
  ELSE FinalReturn(raw_answer, conf, raw_reason, intent)

\* (v or "").strip()
OrEmptyStrip(v) == IF Truthy(v) THEN StrStrip(v.s) ELSE <<>>

\* (v or "").strip() raises AttributeError for a truthy value that is no str
OrEmptyStripRaises(v) == Truthy(v) /\ v.t # "str"

\* lines 318-381: the model's text parsed as ai_data
PostProcess(request, ai_data) ==
  IF ai_data.t # "dict" THEN Raise(NoAttribute(ai_data.t, <<"g","e","t">>), 1)
  ELSE IF OrEmptyStripRaises(DictGet(ai_data.answer))
    THEN Raise(NoAttribute(ai_data.answer.t, <<"s","t","r","i","p">>), 1)
  ELSE IF OrEmptyStripRaises(DictGet(ai_data.reasoning))
    THEN Raise(NoAttribute(ai_data.reasoning.t, <<"s","t","r","i","p">>), 1)
  ELSE IF NormalizeIntentRaises(DictGet(ai_data.intent))
    THEN Raise(NoAttribute(ai_data.intent.t, <<"s","t","r","i","p">>), 1)
  ELSE Resolve(request,
               OrEmptyStrip(DictGet(ai_data.answer)),
               ClampConfidence(DictGetDefault(ai_data.confidence, PyNum(75))),
               OrEmptyStrip(DictGet(ai_data.reasoning)),
               _normalize_intent(DictGet(ai_data.intent), request.question))

\* the terminal state of the Predictor that a return statement stands for
Terminal(path) ==
  CASE path = "credentials" -> "CredentialsMissing"
    [] path = "except" -> "ServiceError"
    [] path \in {"fallback", "repaired", "final"} -> "Success"
    [] OTHER -> "none"

\* lines 309-316, the intent normalized
FallbackReturn(request, intent) ==
  Outcome(AIResponse(_repair_answer(request.question, request.options, intent),
                     78,
                     <<"F","a","l","l","b","a","c","k"," ","r","e","s","p","o","n","s","e"," ","d","u","e"," ","t","o"," ","f","o","r","m","a","t","t","i","n","g"," ","i","s","s","u","e",".">>,
                     intent), "fallback", 1)

\* lines 306-316: JSONDecodeError
ParseFallback(request) == FallbackReturn(request, _normalize_intent(PyNone, request.question))

\* CredentialsAbsent with "and" in place of "or"
CredentialsBothAbsent(env) ==
  ~Truthy(env.AWS_ACCESS_KEY_ID) /\ ~Truthy(env.AWS_SECRET_ACCESS_KEY)

\* lines 237-243
CredentialsAbsent(env) ==
  ~Truthy(env.AWS_ACCESS_KEY_ID) \/ ~Truthy(env.AWS_SECRET_ACCESS_KEY)

\* lines 304-381
HandleText(request, clean_text) ==
  IF JsonDecodeError(clean_text) THEN ParseFallback(request)
  ELSE PostProcess(request, JsonLoads(clean_text))

\* lines 233-381, the body of the try block, in the environment env, bedrock
\* being what boto3 does when called: "client_error" (boto3.client raises),
\* "invoke_error" (invoke_model raises), "bad_body" (the body read is not the
\* JSON envelope output.message.content[0].text) or "text" (the model's text)
PredictAnswerBody(request, env, bedrock) ==
  IF CredentialsAbsent(env)
    THEN Outcome(AIResponse(<<>>, 0, <<"A","W","S"," ","C","r","e","d","e","n","t","i","a","l","s"," ","M","i","s","s","i","n","g">>, <<"u","n","k","n","o","w","n">>), "credentials", 0)
  ELSE IF bedrock.kind = "client_error" THEN Raise(bedrock.e, 0)
  ELSE IF bedrock.kind \in {"invoke_error", "bad_body"} THEN Raise(bedrock.e, 1)
  ELSE HandleText(request, CleanText(bedrock.text))

\* lines 383-389: except Exception, r being how the try block ended
ExceptException(r) == IF r.path = "raise" THEN ServiceError(r.e, r.calls) ELSE r

\* predict_answer with a handler that catches the errors of boto3 alone
PredictAnswerNarrowExcept(request, env, bedrock) ==
  IF bedrock.kind = "text"
    THEN PredictAnswerBody(request, env, bedrock)
    ELSE ExceptException(PredictAnswerBody(request, env, bedrock))

\* predict_answer(request): the try block and its handler
predict_answer(request, env, bedrock) ==
  ExceptException(PredictAnswerBody(request, env, bedrock))

(***************************************************************************)
(* The pattern store.  pattern_service.py and config.py are not among the  *)
(* sources: the store is a table of patterns keyed by question pattern,    *)
(* search_pattern returns the pattern of the normalized question or        *)
(* nothing, and save_pattern refuses a pattern without an owner's email.   *)
(***************************************************************************)
PATTERN_MEMORY_CONFIDENCE == 95

\* answerMappings: None, or a list of dicts
NoMappings == [none |-> TRUE, items |-> <<>>]

Mappings(items) == [none |-> FALSE, items |-> items]

Mapping(canonicalValue, variants, contextOptions) ==
  [canonicalValue |-> canonicalValue, variants |-> variants, contextOptions |-> contextOptions]

Pattern(questionPattern, intent, fieldType, confidence, source, answerMappings) ==
  [questionPattern |-> questionPattern, intent |-> intent, fieldType |-> fieldType,
   confidence |-> confidence, source |-> source, answerMappings |-> answerMappings]

NoPattern == Pattern(<<>>, <<>>, <<>>, 0, <<>>, NoMappings)

Match(found, pattern) == [found |-> found, pattern |-> pattern]

search_pattern(store, question) ==
  LET key == StrStrip(StrLower(question))
      hits == {p \in store : p.questionPattern = key}
  IN IF hits = {} THEN Match(FALSE, NoPattern) ELSE Match(TRUE, CHOOSE p \in hits : TRUE)

\* save_pattern(pattern, user_email) with the database in state db: "raise",
\* "rejected" (False) or "saved" (True), and the store it leaves
save_pattern(store, pattern, user_email, db) ==
  IF db = "error" THEN [result |-> "raise", store |-> store]
  ELSE IF ~Truthy(user_email) THEN [result |-> "rejected", store |-> store]
  ELSE [result |-> "saved",
        store |-> {p \in store : p.questionPattern # pattern.questionPattern} \cup {pattern}]

(***************************************************************************)
(* app.py: /predict and /api/patterns/upload                               *)
(***************************************************************************)
\* the fields the model AIRequest declares
AIRequestFields == {"question", "options", "fieldType", "userProfile"}

\* MemoryAnswer always taking the canonical value
MemoryAnswerCanonical(memory_match) ==
  LET mappings == memory_match.answerMappings
  IN IF ~mappings.none /\ Len(mappings.items) > 0
       THEN mappings.items[1].canonicalValue
       ELSE <<>>

\* lines 84-89: the answer a stored pattern gives, "" if it gives none
MemoryAnswer(memory_match) ==
  LET mappings == memory_match.answerMappings
  IN IF ~mappings.none /\ Len(mappings.items) > 0
       THEN LET variants == mappings.items[1].variants
            IN IF Len(variants) > 0 THEN variants[1] ELSE mappings.items[1].canonicalValue
       ELSE <<>>

\* lines 109-122
LearnedPattern(request, ai_response) ==
  Pattern(StrStrip(StrLower(request.question)),
          ai_response.intent,
          request.fieldType,
          ai_response.confidence,
          <<"A","I">>,
          Mappings(<<Mapping(ai_response.answer, <<ai_response.answer>>,
                             IF HasOptions(request.options) THEN request.options.items ELSE <<>>)>>))

\* what the handler did: the HTTP status and body, the Predictor's outcome
\* (NoOutcome if it was not called), the step of persisting, the calls of
\* save_pattern made, and the store left
Handled(status, body, predicted, persist, saves, store) ==
  [status |-> status, body |-> body, outcome |-> predicted, persist |-> persist,
   saves |-> saves, store |-> store]

\* lines 107-127, the try block: reading request.userEmail raises
\* AttributeError, the model having no such field, before save_pattern is called
Persist(request, ai_response, store, db) ==
  IF "userEmail" \notin AIRequestFields
    THEN [result |-> "raise", saves |-> <<>>, store |-> store]
  ELSE LET pattern == LearnedPattern(request, ai_response)
           saved == save_pattern(store, pattern, PyNone, db)
       IN [result |-> saved.result, saves |-> <<pattern>>, store |-> saved.store]

\* lines 102-104
HardSafety(ai_response) ==
  [ai_response EXCEPT !.intent = IF @ = <<>> THEN <<"u","n","k","n","o","w","n">> ELSE @]

\* lines 126-129 with the exception of the persist step let through
AfterPersistNoTry(ai_response, predicted, p) ==
  IF p.result = "raise"
    THEN Handled(500, NoResponse, predicted, "raised", p.saves, p.store)
    ELSE Handled(200, ai_response, predicted, p.result, p.saves, p.store)

\* lines 126-129: except Exception: pass, p being how the try block ended
AfterPersist(ai_response, predicted, p) ==
  Handled(200, ai_response, predicted,
          IF p.result = "raise" THEN "raised" ELSE p.result, p.saves, p.store)

\* lines 106-129
Learn(request, ai_response, predicted, store, db) ==
  IF ai_response.answer # <<>> /\ ai_response.confidence >= 70
    THEN AfterPersist(ai_response, predicted, Persist(request, ai_response, store, db))
    ELSE Handled(200, ai_response, predicted, "skipped", <<>>, store)

\* lines 99-129: the Predictor's response, and the learned pattern
AfterMiss(request, predicted, store, db) ==
  Learn(request, HardSafety(predicted.response), predicted, store, db)

\* lines 83-97, answer being the answer of the stored pattern
AnswerFromMemory(request, env, bedrock, store, db, memory_match, answer) ==
  IF answer # <<>>
    THEN Handled(200,
                 AIResponse(answer, PATTERN_MEMORY_CONFIDENCE,
                            <<"R","e","t","r","i","e","v","e","d"," ","f","r","o","m"," ","P","a","t","t","e","r","n"," ","M","e","m","o","r","y">>, memory_match.pattern.intent),
                 NoOutcome, "none", <<>>, store)
    ELSE AfterMiss(request, predict_answer(request, env, bedrock), store, db)

\* lines 81-129, memory_match being what search_pattern returned
AfterSearch(request, env, bedrock, store, db, memory_match) ==
  AnswerFromMemory(request, env, bedrock, store, db, memory_match,
                   IF memory_match.found THEN MemoryAnswer(memory_match.pattern) ELSE <<>>)

\* lines 72-129: POST /predict
predict(request, env, bedrock, store, db) ==
  AfterSearch(request, env, bedrock, store, db, search_pattern(store, request.question))

\* lines 141-147, saved being what save_pattern did
Uploaded(saved) ==
  Handled(IF saved.result = "raise" THEN 500 ELSE 200, NoResponse, NoOutcome,
          saved.result, <<>>, saved.store)

\* lines 135-147: POST /api/patterns/upload
upload_pattern(pattern, email, store, db) ==
  Uploaded(save_pattern(store, pattern, email, db))

(***************************************************************************)
(* Inputs                                                                  *)
(***************************************************************************)
MaxOptions == 2

Questions ==
  { <<"A","r","e"," ","y","o","u"," ","a","u","t","h","o","r","i","z","e","d"," ","t","o"," ","w","o","r","k"," ","i","n"," ","t","h","e"," ","U","S","?">>, <<"D","e","s","i","r","e","d"," ","s","a","l","a","r","y","?">>, <<"W","h","y"," ","s","h","o","u","l","d"," ","w","e"," ","h","i","r","e"," ","y","o","u","?">> }

OptionPool == { <<>>, <<" ","Y","E","S"," ">>, <<"N","o">>, <<"M","a","l","e">>, <<"D","e","c","l","i","n","e"," ","t","o"," ","a","n","s","w","e","r">> }

RECURSIVE SeqsUpTo(_, _)
SeqsUpTo(S, n) ==
  IF n = 0 THEN {<<>>}
  ELSE LET shorter == SeqsUpTo(S, n - 1)
       IN shorter \cup {Append(q, x) : q \in {r \in shorter : Len(r) = n - 1}, x \in S}

\* a list whose first option is text the detector flags
FlaggedOptionLists == {Options(<<<<"\\","b","n","/","a","\\","b">>, <<"N","o">>>>)}

OptionLists ==
  {NoOptions} \cup {Options(items) : items \in SeqsUpTo(OptionPool, MaxOptions)}
    \cup FlaggedOptionLists

FieldTypes == {<<"r","a","d","i","o">>}

Requests == [question : Questions, options : OptionLists, fieldType : FieldTypes]

\* os.environ: a variable unset, set to "", or set
Envs ==
  { [AWS_ACCESS_KEY_ID |-> PyStr(<<"A","K","I","A">>), AWS_SECRET_ACCESS_KEY |-> PyStr(<<"s","e","c","r","e","t">>)],
    [AWS_ACCESS_KEY_ID |-> PyNone, AWS_SECRET_ACCESS_KEY |-> PyStr(<<"s","e","c","r","e","t">>)],
    [AWS_ACCESS_KEY_ID |-> PyStr(<<"A","K","I","A">>), AWS_SECRET_ACCESS_KEY |-> PyStr(<<>>)] }

Answers ==
  { PyAbsent, PyStr(<<"N","o">>), PyStr(<<"y","e","s">>), PyStr(<<"m","a","y","b","e">>), PyStr(<<"N","o","t"," ","P","r","o","v","i","d","e","d">>), PyStr(<<"m","a","n">>),
    PyStr(<<"a","u","t","h","o","r","i","z","e","d">>), PyStr(<<"\\","b","n","/","a","\\","b">>), PyNum(500) }

Confidences ==
  { PyAbsent, PyNum(50), PyNum(72), PyNum(120), PyNaN, PyStr(<<"h","i","g","h">>), PyStr(<<"0",".","9","1">>) }

Intents ==
  { PyAbsent, PyStr(<<>>), PyStr(<<"p","e","r","s","o","n","a","l",".","e","m","a","i","l">>), PyStr(<<"S","a","l","a","r","y">>), PyStr(<<"m","a","d","e"," ","u","p">>),
    PyList(1), PyNum(0) }

Reasonings == { PyAbsent, PyStr(<<"o","k">>), PyList(1) }

JsonObjects ==
  {JsonObject(a, c, PyStr(<<"o","k">>), PyStr(<<"m","a","d","e"," ","u","p">>)) : a \in Answers, c \in Confidences}
    \cup {JsonObject(a, PyNum(72), PyStr(<<"o","k">>), i) : a \in Answers, i \in Intents}
    \cup {JsonObject(PyStr(<<"m","a","y","b","e">>), PyNum(72), r, PyStr(<<"m","a","d","e"," ","u","p">>)) : r \in Reasonings}

JsonPiece(doc) == Piece("json", doc)

Ws == Piece("ws", NoJson)

Prose == Piece("prose", NoJson)

Texts ==
  {<<JsonPiece(doc)>> : doc \in JsonObjects}
    \cup {<<JsonPiece(JsonOther(t))>> : t \in {"list", "str", "num", "none"}}
    \cup {<<Piece("fence_json", NoJson), Ws, JsonPiece(doc), Ws, Piece("fence", NoJson)>> :
            doc \in {JsonObject(PyStr(<<"N","o">>), PyNum(72), PyStr(<<"o","k">>), PyStr(<<"S","a","l","a","r","y">>))}}
    \cup { <<>>, <<Prose>>, <<Prose, Ws, JsonPiece(JsonObject(PyStr(<<"N","o">>), PyNum(72), PyStr(<<"o","k">>), PyAbsent))>> }

Bedrock(kind, e, text) == [kind |-> kind, e |-> e, text |-> text]

BedrockOutcomes ==
  { Bedrock("client_error", <<"U","n","k","n","o","w","n"," ","s","e","r","v","i","c","e">>, <<>>),
    Bedrock("invoke_error", <<"R","e","a","d"," ","t","i","m","e","o","u","t">>, <<>>),
    Bedrock("bad_body", <<"'","o","u","t","p","u","t","'">>, <<>>) }
    \cup {Bedrock("text", <<>>, text) : text \in Texts}

NotCalled == Bedrock("none", <<>>, <<>>)

NoRequest == [question |-> <<>>, options |-> NoOptions, fieldType |-> <<>>]

(***************************************************************************)
(* Inputs of the handlers of app.py                                        *)
(***************************************************************************)
MaxPatterns == 1

FacadeRequests ==
  [question : Questions,
   options : {NoOptions, Options(<<<<" ","Y","E","S"," ">>, <<"N","o">>>>), Options(<<<<>>, <<"M","a","l","e">>>>)},
   fieldType : FieldTypes]

FacadeEnvs ==
  { [AWS_ACCESS_KEY_ID |-> PyStr(<<"A","K","I","A">>), AWS_SECRET_ACCESS_KEY |-> PyStr(<<"s","e","c","r","e","t">>)],
    [AWS_ACCESS_KEY_ID |-> PyNone, AWS_SECRET_ACCESS_KEY |-> PyStr(<<"s","e","c","r","e","t">>)] }

FacadeBedrock ==
  { Bedrock("invoke_error", <<"R","e","a","d"," ","t","i","m","e","o","u","t">>, <<>>),
    Bedrock("text", <<>>, <<Prose>>),
    Bedrock("text", <<>>, <<JsonPiece(JsonOther("list"))>>) }
    \cup {Bedrock("text", <<>>, <<JsonPiece(JsonObject(a, c, PyStr(<<"o","k">>), PyStr(<<"e","e","o",".","g","e","n","d","e","r">>)))>>) :
            a \in {PyAbsent, PyStr(<<"N","o">>), PyStr(<<"m","a","n">>), PyStr(<<"m","a","y","b","e">>), PyNum(500)},
            c \in {PyNum(50)}}

Keys == {StrStrip(StrLower(q)) : q \in Questions}

StoredMappings ==
  { NoMappings,
    Mappings(<<>>),
    Mappings(<<Mapping(<<"M","a","l","e">>, <<<<"M","a","n">>>>, <<>>)>>),
    Mappings(<<Mapping(<<"N","o">>, <<>>, <<>>)>>),
    Mappings(<<Mapping(<<"N","o">>, <<<<>>>>, <<>>)>>) }

\* the patterns a client uploads
UploadPatterns ==
  {Pattern(k, <<"e","e","o",".","g","e","n","d","e","r">>, <<"r","a","d","i","o">>, 90, <<"m","a","n","u","a","l">>, m) : k \in Keys, m \in StoredMappings}
    \cup {Pattern(k, i, <<"r","a","d","i","o">>, 90, <<"m","a","n","u","a","l">>, Mappings(<<Mapping(<<"M","a","l","e">>, <<<<"M","a","n">>>>, <<>>)>>)) :
            k \in Keys, i \in {<<"G","e","n","d","e","r">>, <<>>}}

Emails == {PyNone, PyStr(<<"a","@","b",".","c">>)}

DbStates == {"ok", "error"}

(***************************************************************************)
(* State                                                                   *)
(***************************************************************************)
VARIABLES
  pc,        \* "idle", "call", "done" or "return"
  handler,   \* the operation running or last run
  request,   \* the AIRequest of predict_answer or /predict
  env,       \* os.environ
  bedrock,   \* what boto3 did in the call, NotCalled if it was not used
  outcome,   \* what predict_answer did in the call, NoOutcome if it was not called
  store,     \* the pattern store
  handled,   \* what the handler of app.py did: status, body, persist, saves
  args,      \* the arguments of a helper called on its own
  ret        \* its return value

vars == <<pc, handler, request, env, bedrock, outcome, store, handled, args, ret>>

NotHandled == Handled(0, NoResponse, NoOutcome, "none", <<>>, {})

NoArgs == [intent |-> PyNone, question |-> <<>>]

\* a caller holds a request, in some environment
InitPredictAnswer ==
  /\ pc = "call"
  /\ handler = "predict_answer"
  /\ request \in Requests
  /\ env \in Envs
  /\ bedrock = NotCalled
  /\ outcome = NoOutcome
  /\ store = {}
  /\ handled = NotHandled
  /\ args = NoArgs
  /\ ret = <<>>

\* predict_answer(request) runs to its return
PredictAnswer ==
  /\ pc = "call"
  /\ handler = "predict_answer"
  /\ \E b \in BedrockOutcomes :
       /\ bedrock' = b
       /\ outcome' = predict_answer(request, env, b)
  /\ pc' = "return"
  /\ UNCHANGED <<handler, request, env, store, handled, args, ret>>

NextPredictAnswer == PredictAnswer

SpecPredictAnswer == InitPredictAnswer /\ [][NextPredictAnswer]_vars

\* the service starts with an empty store
Init ==
  /\ pc = "idle"
  /\ handler = "none"
  /\ request = NoRequest
  /\ env \in FacadeEnvs
  /\ bedrock = NotCalled
  /\ outcome = NoOutcome
  /\ store = {}
  /\ handled = NotHandled
  /\ args = NoArgs
  /\ ret = <<>>

\* POST /predict
Predict ==
  /\ pc = "idle"
  /\ \E r \in FacadeRequests, b \in FacadeBedrock, db \in DbStates :
       /\ handled' = predict(r, env, b, store, db)
       /\ request' = r
       /\ bedrock' = IF handled'.outcome.path \in {"none", "credentials"} THEN NotCalled ELSE b
  /\ outcome' = handled'.outcome
  /\ store' = handled'.store
  /\ handler' = "predict"
  /\ pc' = "done"
  /\ UNCHANGED <<env, args, ret>>

\* POST /api/patterns/upload
UploadPattern ==
  /\ pc = "idle"
  /\ \E p \in UploadPatterns, email \in Emails, db \in DbStates :
       handled' = upload_pattern(p, email, store, db)
  /\ Cardinality(handled'.store) <= MaxPatterns
  /\ store' = handled'.store
  /\ handler' = "upload_pattern"
  /\ pc' = "done"
  /\ UNCHANGED <<request, env, bedrock, outcome, args, ret>>

\* the response is sent and the service waits for the next request
Respond ==
  /\ pc = "done"
  /\ pc' = "idle"
  /\ handler' = "none"
  /\ request' = NoRequest
  /\ bedrock' = NotCalled
  /\ outcome' = NoOutcome
  /\ handled' = NotHandled
  /\ UNCHANGED <<env, store, args, ret>>

Next == Predict \/ UploadPattern \/ Respond

Spec == Init /\ [][Next]_vars

(***************************************************************************)
(* _normalize_intent called on its own                                     *)
(***************************************************************************)
IntentInputs ==
  { PyNone, PyStr(<<>>), PyStr(<<"u","n","k","n","o","w","n">>), PyStr(<<"p","e","r","s","o","n","a","l",".","e","m","a","i","l">>), PyStr(<<" ","e","e","o",".","g","e","n","d","e","r"," ">>),
    PyStr(<<"p","e","r","s","o","n","a","l",".","a","d","d","i","t","i","o","n","a","l","I","n","f","o">>), PyStr(<<"W","h","y","-","F","i","t">>), PyStr(<<"w","h","y","_","f","i","t">>), PyStr(<<" ","S","A","L","A","R","Y"," ">>),
    PyStr(<<"P","e","r","s","o","n","a","l",".","S","a","l","a","r","y">>), PyStr(<<"a","d","d","i","t","i","o","n","a","l"," ","i","n","f","o">>), PyStr(<<"E","x","p","e","r","i","e","n","c","e">>), PyStr(<<"m","a","d","e"," ","u","p">>),
    PyStr(<<"P","e","r","s","o","n","a","l",".","E","m","a","i","l">>), PyStr(<<"p","a","y">>) }

QuestionInputs ==
  { <<>>, <<"A","r","e"," ","y","o","u"," ","a","u","t","h","o","r","i","z","e","d"," ","t","o"," ","w","o","r","k"," ","i","n"," ","t","h","e"," ","U","S","?">>, <<"D","e","s","i","r","e","d"," ","s","a","l","a","r","y","?">>, <<"E","x","p","e","c","t","e","d"," ","C","O","M","P","E","N","S","A","T","I","O","N">>,
    <<"R","a","t","e"," ","o","f"," ","p","a","y">>, <<"A","n","y","t","h","i","n","g"," ","e","l","s","e","?">>, <<"A","d","d","i","t","i","o","n","a","l"," ","i","n","f","o","r","m","a","t","i","o","n">>, <<"W","h","a","t"," ","s","h","o","u","l","d"," ","w","e"," ","k","n","o","w"," ","a","b","o","u","t"," ","y","o","u","?">>,
    <<"A","r","e"," ","y","o","u"," ","a"," ","s","t","r","o","n","g"," ","f","i","t","?">>, <<"W","h","y"," ","y","o","u","?">>, <<"W","h","y"," ","s","h","o","u","l","d"," ","w","e"," ","h","i","r","e"," ","y","o","u","?">>, <<"S","a","l","a","r","y"," ","a","n","d"," ","a","n","y","t","h","i","n","g"," ","e","l","s","e","?">>,
    <<"A","d","d","i","t","i","o","n","a","l"," ","r","e","a","s","o","n","s"," ","w","h","y"," ","y","o","u"," ","f","i","t">>, <<"W","h","y"," ","s","h","o","u","l","d"," ","w","e"," ","h","i","r","e"," ","y","o","u"," ","a","t"," ","t","h","i","s"," ","p","a","y","?">> }

InitNormalizeIntent ==
  /\ pc = "call"
  /\ handler = "_normalize_intent"
  /\ args \in [intent : IntentInputs, question : QuestionInputs]
  /\ ret = <<>>
  /\ request = NoRequest
  /\ env \in {[AWS_ACCESS_KEY_ID |-> PyNone, AWS_SECRET_ACCESS_KEY |-> PyNone]}
  /\ bedrock = NotCalled
  /\ outcome = NoOutcome
  /\ store = {}
  /\ handled = NotHandled

\* _normalize_intent(intent, question) runs to its return
NormalizeIntent ==
  /\ pc = "call"
  /\ handler = "_normalize_intent"
  /\ ret' = _normalize_intent(args.intent, args.question)
  /\ pc' = "return"
  /\ UNCHANGED <<handler, request, env, bedrock, outcome, store, handled, args>>

NextNormalizeIntent == NormalizeIntent

SpecNormalizeIntent == InitNormalizeIntent /\ [][NextNormalizeIntent]_vars

(***************************************************************************)
(* _is_forbidden_answer called on its own                                  *)
(***************************************************************************)
AnswerCores ==
  { <<>>, <<"n","o","t"," ","p","r","o","v","i","d","e","d">>, <<"N","o","t"," ","P","r","o","v","i","d","e","d">>, <<"I"," ","d","o","n","'","t"," ","k","n","o","w">>, <<"d","o"," ","n","o","t"," ","k","n","o","w">>, <<"N","/","A">>, <<"n","/","a">>, <<"n","a">>,
    <<"f","r","e","e"," ","t","e","x","t"," ","i","n","p","u","t">>, <<"N","o"," ","a","d","d","i","t","i","o","n","a","l"," ","i","n","f","o","r","m","a","t","i","o","n">>, <<"n","o","t","h","i","n","g"," ","t","o"," ","a","d","d">>, <<"N","O","T"," ","S","U","R","E">>,
    <<"Y","e","s">>, <<"M","a","l","e">>, <<"B","a","n","a","n","a">>, <<"n","o","t">>, <<"\\","b","n","o","t"," ","s","u","r","e","\\","b">>, <<"\\","b","n","/","a","\\","b">>, <<"\\","b","n","a","\\","b">>, <<"\\","B","N","o","t"," ","P","r","o","v","i","d","e","d","\\","B">> }

AnswerPrefixes == { <<>>, <<" ">>, <<"A","n","s","w","e","r",":"," ">> }

AnswerSuffixes == { <<>>, <<".">>, <<"\t">> }

AnswerInputs == {p \o c \o x : p \in AnswerPrefixes, c \in AnswerCores, x \in AnswerSuffixes}

InitIsForbiddenAnswer ==
  /\ pc = "call"
  /\ handler = "_is_forbidden_answer"
  /\ args \in [ans : AnswerInputs]
  /\ ret = <<>>
  /\ request = NoRequest
  /\ env \in {[AWS_ACCESS_KEY_ID |-> PyNone, AWS_SECRET_ACCESS_KEY |-> PyNone]}
  /\ bedrock = NotCalled
  /\ outcome = NoOutcome
  /\ store = {}
  /\ handled = NotHandled

\* _is_forbidden_answer(ans) runs to its return
IsForbiddenAnswer ==
  /\ pc = "call"
  /\ handler = "_is_forbidden_answer"
  /\ ret' = _is_forbidden_answer(args.ans)
  /\ pc' = "return"
  /\ UNCHANGED <<handler, request, env, bedrock, outcome, store, handled, args>>

NextIsForbiddenAnswer == IsForbiddenAnswer

SpecIsForbiddenAnswer == InitIsForbiddenAnswer /\ [][NextIsForbiddenAnswer]_vars

(***************************************************************************)
(* _repair_answer called on its own                                        *)
(***************************************************************************)
RepairOptionPool ==
  { <<>>, <<"Y","e","s">>, <<"p","r","e","f","e","r"," ","n","o","t"," ","t","o"," ","s","a","y">>, <<"D","e","c","l","i","n","e"," ","t","o"," ","s","t","a","t","e">>, <<" ","D","E","C","L","I","N","E"," ","T","O"," ","A","N","S","W","E","R"," ">>, <<"P","r","e","f","e","r"," ","n","o","t"," ","t","o"," ","d","i","s","c","l","o","s","e">> }

RepairOptionLists ==
  {NoOptions} \cup {Options(items) : items \in SeqsUpTo(RepairOptionPool, MaxOptions)}

RepairQuestions == { <<"G","e","n","d","e","r","?">>, <<"D","e","s","i","r","e","d"," ","s","a","l","a","r","y","?">>, <<"W","h","y"," ","s","h","o","u","l","d"," ","w","e"," ","h","i","r","e"," ","y","o","u","?">> }

RepairIntents == { <<"u","n","k","n","o","w","n">>, <<"e","e","o",".","g","e","n","d","e","r">>, <<"p","e","r","s","o","n","a","l",".","a","d","d","i","t","i","o","n","a","l","I","n","f","o">> }

InitRepairAnswer ==
  /\ pc = "call"
  /\ handler = "_repair_answer"
  /\ args \in [question : RepairQuestions, options : RepairOptionLists, intent : RepairIntents]
  /\ ret = <<>>
  /\ request = NoRequest
  /\ env \in {[AWS_ACCESS_KEY_ID |-> PyNone, AWS_SECRET_ACCESS_KEY |-> PyNone]}
  /\ bedrock = NotCalled
  /\ outcome = NoOutcome
  /\ store = {}
  /\ handled = NotHandled

\* _repair_answer(question, options, intent) runs to its return
RepairAnswer ==
  /\ pc = "call"
  /\ handler = "_repair_answer"
  /\ ret' = _repair_answer(args.question, args.options, args.intent)
  /\ pc' = "return"
  /\ UNCHANGED <<handler, request, env, bedrock, outcome, store, handled, args>>

NextRepairAnswer == RepairAnswer

SpecRepairAnswer == InitRepairAnswer /\ [][NextRepairAnswer]_vars

(***************************************************************************)
(* Properties of predict_answer, under SpecPredictAnswer                   *)
(***************************************************************************)
Returned == pc = "return"

\* the model's text holding exactly the JSON document doc
ModelSaid(doc) == bedrock.kind = "text" /\ bedrock.text = <<JsonPiece(doc)>>

EitherCredentialMissing ==
  \/ env.AWS_ACCESS_KEY_ID.t = "none" \/ env.AWS_ACCESS_KEY_ID.s = <<>>
  \/ env.AWS_SECRET_ACCESS_KEY.t = "none" \/ env.AWS_SECRET_ACCESS_KEY.s = <<>>

\* C1: every return of predict_answer that is neither CredentialsMissing nor
\* ServiceError has a confidence in [0.70, 0.99] and an answer that is not
\* empty and that the Forbidden-Answer Detector does not flag; an empty answer
\* comes only with confidence 0.0.
C1_SuccessIsUsable ==
  Returned =>
    /\ Terminal(outcome.path) = "Success" =>
         /\ outcome.response.confidence \in 70..99
         /\ outcome.response.answer # <<>>
         /\ ~_is_forbidden_answer(outcome.response.answer)
    /\ outcome.response.answer = <<>> => outcome.response.confidence = 0

\* C2: in every terminal state and for every raw intent of the model, the
\* intent of the response is a member of the Allowed Intent Set, never empty.
C2_IntentAllowed ==
  Returned =>
    /\ Terminal(outcome.path) \in {"Success", "CredentialsMissing", "ServiceError"}
    /\ outcome.response.intent \in ALLOWED_INTENTS
    /\ outcome.response.intent # <<>>

\* an unlisted raw intent with a placeholder answer: the repaired return,
\* which has no final check of its own, carries "unknown"
C2_Witness ==
  /\ Returned
  /\ ModelSaid(JsonObject(PyAbsent, PyNum(72), PyStr(<<"o","k">>), PyStr(<<"m","a","d","e"," ","u","p">>)))
  /\ request.question = <<"A","r","e"," ","y","o","u"," ","a","u","t","h","o","r","i","z","e","d"," ","t","o"," ","w","o","r","k"," ","i","n"," ","t","h","e"," ","U","S","?">>
  /\ outcome.path = "repaired"
  /\ outcome.response.intent = <<"u","n","k","n","o","w","n">>

\* C3: with a non-empty option list, the answer of every Success response is
\* an element of that list, casing and spacing as the list has it.
C3_AnswerIsOption ==
  (Returned /\ Terminal(outcome.path) = "Success" /\ HasOptions(request.options))
    => InOptions(outcome.response.answer, request.options)

\* the model answers "yes" and the list holds " YES ": the matched path
\* returns the option as the list spells it
C3_Witness ==
  /\ Returned
  /\ ModelSaid(JsonObject(PyStr(<<"y","e","s">>), PyNum(72), PyStr(<<"o","k">>), PyStr(<<"m","a","d","e"," ","u","p">>)))
  /\ request.options = Options(<<<<"N","o">>, <<" ","Y","E","S"," ">>>>)
  /\ outcome.path = "final"
  /\ outcome.response.answer = <<" ","Y","E","S"," ">>

\* C4: with either credential absent, predict_answer returns exactly answer
\* "", confidence 0.0, intent "unknown" and never invokes the inference
\* endpoint.
C4_CredentialsMissing ==
  (Returned /\ EitherCredentialMissing) =>
    /\ outcome.response = AIResponse(<<>>, 0, <<"A","W","S"," ","C","r","e","d","e","n","t","i","a","l","s"," ","M","i","s","s","i","n","g">>, <<"u","n","k","n","o","w","n">>)
    /\ Terminal(outcome.path) = "CredentialsMissing"
    /\ outcome.calls = 0

\* the secret key is set to "", and the service would have answered
C4_Witness ==
  /\ Returned
  /\ env.AWS_ACCESS_KEY_ID = PyStr(<<"A","K","I","A">>)
  /\ env.AWS_SECRET_ACCESS_KEY = PyStr(<<>>)
  /\ bedrock.kind = "text"
  /\ outcome.path = "credentials"
  /\ outcome.calls = 0

\* C5: predict_answer propagates no exception: every call ends in one of
\* Success, CredentialsMissing and ServiceError, and whatever raises in the
\* inference call or in the handling of its response gives answer "",
\* confidence 0.0, intent "unknown" and the error's description, the inference
\* call being made at most once.
C5_NoExceptionEscapes ==
  Returned =>
    LET body == PredictAnswerBody(request, env, bedrock)
    IN /\ Terminal(outcome.path) \in {"Success", "CredentialsMissing", "ServiceError"}
       /\ body.path = "raise" =>
            /\ Terminal(outcome.path) = "ServiceError"
            /\ outcome.response = AIResponse(<<>>, 0, <<"A","W","S"," ","E","r","r","o","r",":"," ">> \o body.e, <<"u","n","k","n","o","w","n">>)
       /\ outcome.calls <= 1

\* the model's answer is a number: .strip() raises inside the try block
C5_Witness ==
  /\ Returned
  /\ ModelSaid(JsonObject(PyNum(500), PyNum(72), PyStr(<<"o","k">>), PyStr(<<"m","a","d","e"," ","u","p">>)))
  /\ outcome.path = "except"
  /\ outcome.response.reasoning = <<"A","W","S"," ","E","r","r","o","r",":"," ","'","i","n","t","'"," ","o","b","j","e","c","t"," ","h","a","s"," ","n","o"," ","a","t","t","r","i","b","u","t","e"," ","'","s","t","r","i","p","'">>
  /\ outcome.calls = 1

\* the model's text, fences stripped, is no JSON object
Malformed(text) ==
  LET clean_text == CleanText(text)
  IN JsonDecodeError(clean_text) \/ JsonLoads(clean_text).t # "dict"

\* C6: whenever the model's text, code fences stripped, is not a valid
\* structured record, predict_answer ends in Success with the Repairer's
\* answer, the intent normalized from the question alone and confidence 0.78,
\* never in ServiceError.
C6_MalformedRecovered ==
  (Returned /\ ~EitherCredentialMissing /\ bedrock.kind = "text" /\ Malformed(bedrock.text)) =>
    LET intent == _normalize_intent(PyNone, request.question)
    IN /\ Terminal(outcome.path) = "Success"
       /\ outcome.response.answer = _repair_answer(request.question, request.options, intent)
       /\ outcome.response.intent = intent
       /\ outcome.response.confidence = 78

(***************************************************************************)
(* Properties of /predict, under Spec                                      *)
(***************************************************************************)
Predicted == pc = "done" /\ handler = "predict"

\* the Predictor ran and its result is usable
UsableMiss ==
  /\ Predicted
  /\ outcome.path # "none"
  /\ outcome.response.answer # <<>>
  /\ outcome.response.confidence >= 70

\* C7: on a miss with a usable Predictor result, /predict writes to the
\* pattern store a LearnedPattern built from it: the lower-cased trimmed
\* question, the result's intent and confidence, the request's fieldType,
\* source "AI" and one mapping whose canonical value and sole variant is the
\* answer; the same question then finds it in the store.
C7_UsableResultIsSaved ==
  UsableMiss =>
    /\ Len(handled.saves) = 1
    /\ handled.saves[1].questionPattern = StrStrip(StrLower(request.question))
    /\ handled.saves[1].intent = outcome.response.intent
    /\ handled.saves[1].confidence = outcome.response.confidence
    /\ handled.saves[1].fieldType = request.fieldType
    /\ handled.saves[1].source = <<"A","I">>
    /\ Len(handled.saves[1].answerMappings.items) = 1
    /\ handled.saves[1].answerMappings.items[1].canonicalValue = outcome.response.answer
    /\ handled.saves[1].answerMappings.items[1].variants = <<outcome.response.answer>>
    /\ search_pattern(store, request.question).found

\* the pattern the store holds for the question of the request, if any
Stored == search_pattern(store, request.question)

\* the first variant of the first mapping, or its canonical value when it has
\* no variants; "" when the pattern has no mapping
StoredAnswer ==
  LET m == Stored.pattern.answerMappings
  IN IF m.none \/ m.items = <<>> THEN <<>>
     ELSE IF m.items[1].variants # <<>> THEN m.items[1].variants[1]
     ELSE m.items[1].canonicalValue

AnsweredFromMemory ==
  /\ handled.status = 200
  /\ handled.body = AIResponse(StoredAnswer, PATTERN_MEMORY_CONFIDENCE,
                               <<"R","e","t","r","i","e","v","e","d"," ","f","r","o","m"," ","P","a","t","t","e","r","n"," ","M","e","m","o","r","y">>, Stored.pattern.intent)
  /\ outcome = NoOutcome
  /\ bedrock = NotCalled

\* C8 as stated: whenever the store returns a match, /predict returns the
\* first variant of the first mapping (or its canonical value) with the
\* pattern-memory confidence and the stored intent, and the Predictor is not
\* invoked.
C8_MatchBypassesPredictor == (Predicted /\ Stored.found) => AnsweredFromMemory

\* C8 as amended: whenever the store returns a match that gives a non-empty
\* answer, /predict returns that answer with the pattern-memory confidence and
\* the stored intent, and the Predictor is not invoked.
C8_AnsweringMatchBypassesPredictor ==
  (Predicted /\ Stored.found /\ StoredAnswer # <<>>) => AnsweredFromMemory

\* a match whose first mapping has a variant other than its canonical value
C8_Witness ==
  /\ Predicted
  /\ Stored.found
  /\ Stored.pattern.answerMappings = Mappings(<<Mapping(<<"M","a","l","e">>, <<<<"M","a","n">>>>, <<>>)>>)
  /\ handled.body.answer = <<"M","a","n">>
  /\ outcome = NoOutcome

\* C9: a failure while building or writing the learned pattern never fails
\* the request: /predict returns the Predictor's response unchanged and
\* propagates no error.
C9_PersistFailureSwallowed ==
  (Predicted /\ handled.persist = "raised") =>
    /\ handled.status = 200
    /\ handled.body = outcome.response

\* the persist step raises after a usable answer of the model
C9_Witness ==
  /\ Predicted
  /\ handled.persist = "raised"
  /\ outcome.path = "final"
  /\ handled.body.answer = <<"N","o">>
  /\ handled.body.confidence = 70

(***************************************************************************)
(* Properties of _normalize_intent, under SpecNormalizeIntent              *)
(***************************************************************************)
\* the str _normalize_intent works on, trimmed
RawIntent == StrStrip(IF args.intent.t = "str" THEN args.intent.s ELSE <<>>)

RawKey == StrRemove(StrLower(RawIntent), {" ", "-", "_"})

AsksSalary ==
  \E w \in {<<"s","a","l","a","r","y">>, <<"c","o","m","p","e","n","s","a","t","i","o","n">>, <<"p","a","y">>} : StrIn(w, StrLower(args.question))

AsksAdditional ==
  \E w \in {<<"a","n","y","t","h","i","n","g"," ","e","l","s","e">>, <<"a","d","d","i","t","i","o","n","a","l">>, <<"k","n","o","w"," ","a","b","o","u","t"," ","y","o","u">>} : StrIn(w, StrLower(args.question))

AsksWhyFit ==
  \E w \in {<<"s","t","r","o","n","g"," ","f","i","t">>, <<"w","h","y"," ","y","o","u">>, <<"w","h","y"," ","s","h","o","u","l","d"," ","w","e"," ","h","i","r","e">>} : StrIn(w, StrLower(args.question))

InTable == \E i \in 1..Len(INTENT_NORMALIZATION) : INTENT_NORMALIZATION[i][1] = RawKey

PlaceholderPhrases ==
  { <<"n","o","t"," ","p","r","o","v","i","d","e","d">>, <<"i"," ","d","o","n","'","t"," ","k","n","o","w">>, <<"d","o"," ","n","o","t"," ","k","n","o","w">>, <<"n","/","a">>, <<"f","r","e","e"," ","t","e","x","t"," ","i","n","p","u","t">>,
    <<"n","o"," ","a","d","d","i","t","i","o","n","a","l"," ","i","n","f","o","r","m","a","t","i","o","n">>, <<"n","o","t","h","i","n","g"," ","t","o"," ","a","d","d">>, <<"n","o","t"," ","s","u","r","e">> }

HoldsPlaceholder(ans) == \E p \in PlaceholderPhrases : StrIn(p, StrLower(ans))

Blank(ans) == StrStrip(ans) = <<>>

\* C11: _is_forbidden_answer returns true for the empty or whitespace-only
\* string and for every answer that contains, in any letter case, one of the
\* placeholder phrases; it returns false for every other answer.
C11_DetectorFlagsPlaceholders ==
  (pc = "return" /\ handler = "_is_forbidden_answer") =>
    (ret <=> (Blank(args.ans) \/ HoldsPlaceholder(args.ans)))

(***************************************************************************)
(* Properties of the post-processing of predict_answer, under              *)
(* SpecPredictAnswer                                                       *)
(***************************************************************************)
\* the model's text parsed, where it parses
ParsedData == JsonLoads(CleanText(bedrock.text))

\* predict_answer returned after the detector was consulted
DetectorConsulted == Returned /\ outcome.path \in {"repaired", "final"}

\* raw_answer, raw_conf clamped, and the intent normalized, of that call
ParsedAnswer == OrEmptyStrip(DictGet(ParsedData.answer))

ParsedConfidence == ClampConfidence(DictGetDefault(ParsedData.confidence, PyNum(75)))

ParsedIntent == _normalize_intent(DictGet(ParsedData.intent), request.question)

DetectorFlagged == DetectorConsulted /\ _is_forbidden_answer(ParsedAnswer)

\* C12: whenever the detector flags the parsed model answer, predict_answer
\* returns the Answer Repairer's output, the confidence max(clamped, 0.75),
\* the fixed "repaired" reasoning and the normalized intent, and the text the
\* detector flagged does not appear in the response.
C12_FlaggedAnswerRepaired ==
  DetectorFlagged =>
    /\ outcome.response.answer = _repair_answer(request.question, request.options, ParsedIntent)
    /\ outcome.response.confidence = IntMax(ParsedConfidence, 75)
    /\ outcome.response.reasoning = <<"R","e","p","a","i","r","e","d"," ","a","n","s","w","e","r"," ","t","o"," ","a","v","o","i","d"," ","p","l","a","c","e","h","o","l","d","e","r","s",".">>
    /\ outcome.response.intent = ParsedIntent
    /\ outcome.response.answer # ParsedAnswer
    /\ ParsedAnswer # <<>> => ~StrIn(ParsedAnswer, outcome.response.answer)

\* C12 without its last part: the four fields of the repaired response
C12_RepairedFields ==
  DetectorFlagged =>
    /\ outcome.response.answer = _repair_answer(request.question, request.options, ParsedIntent)
    /\ outcome.response.confidence = IntMax(ParsedConfidence, 75)
    /\ outcome.response.reasoning = <<"R","e","p","a","i","r","e","d"," ","a","n","s","w","e","r"," ","t","o"," ","a","v","o","i","d"," ","p","l","a","c","e","h","o","l","d","e","r","s",".">>
    /\ outcome.response.intent = ParsedIntent

(***************************************************************************)
(* Properties of _repair_answer, under SpecRepairAnswer                    *)
(***************************************************************************)
RepairedWithOptions ==
  pc = "return" /\ handler = "_repair_answer" /\ HasOptions(args.options)

PreferenceList ==
  << <<"P","r","e","f","e","r"," ","n","o","t"," ","t","o"," ","s","a","y">>, <<"D","e","c","l","i","n","e"," ","t","o"," ","a","n","s","w","e","r">>, <<"D","e","c","l","i","n","e"," ","t","o"," ","s","t","a","t","e">>, <<"P","r","e","f","e","r"," ","n","o","t"," ","t","o"," ","d","i","s","c","l","o","s","e">> >>

\* the options that case-insensitively equal an entry of the preference list
EqualPreferred ==
  {j \in 1..Len(args.options.items) :
     \E p \in 1..Len(PreferenceList) : StrLower(args.options.items[j]) = StrLower(PreferenceList[p])}

\* option j, trimmed, case-insensitively equals entry p of the preference list
TrimmedEqual(p, j) == StrLower(StrStrip(args.options.items[j])) = StrLower(PreferenceList[p])

TrimmedPreferred ==
  {h \in (1..Len(PreferenceList)) \X (1..Len(args.options.items)) : TrimmedEqual(h[1], h[2])}

\* the result is the same for every question and intent
SameForAllQuestions ==
  \A q \in RepairQuestions, i \in RepairIntents : _repair_answer(q, args.options, i) = ret

\* C13 as stated: for a non-empty option list _repair_answer returns a member
\* of the list: the first option that case-insensitively equals an entry of
\* the preference list if there is one, else the first option; the question
\* and the intent do not influence the result.
C13_RepairPicksFirstPreferred ==
  RepairedWithOptions =>
    /\ InOptions(ret, args.options)
    /\ EqualPreferred # {} => ret = args.options.items[SetMin(EqualPreferred)]
    /\ EqualPreferred = {} => ret = args.options.items[1]
    /\ SameForAllQuestions

\* C13 as amended: for a non-empty option list _repair_answer returns a member
\* of the list: if an option, trimmed, case-insensitively equals an entry of
\* the preference list, the option that equals the earliest such entry (the
\* first in list order among those equal to that entry), as it is written in
\* the list; else the first option; the question and the intent do not
\* influence the result.
C13_RepairPicksByPreference ==
  RepairedWithOptions =>
    /\ InOptions(ret, args.options)
    /\ TrimmedPreferred # {} =>
         \E h \in TrimmedPreferred :
           /\ ret = args.options.items[h[2]]
           /\ \A g \in TrimmedPreferred : h[1] < g[1] \/ (h[1] = g[1] /\ h[2] <= g[2])
    /\ TrimmedPreferred = {} => ret = args.options.items[1]
    /\ SameForAllQuestions

\* two preferred options, the later in the list the earlier in the preferences
C13_Witness ==
  /\ pc = "return"
  /\ handler = "_repair_answer"
  /\ args.options = Options(<<<<"D","e","c","l","i","n","e"," ","t","o"," ","s","t","a","t","e">>, <<"p","r","e","f","e","r"," ","n","o","t"," ","t","o"," ","s","a","y">>>>)
  /\ args.question = <<"D","e","s","i","r","e","d"," ","s","a","l","a","r","y","?">>
  /\ ret = <<"p","r","e","f","e","r"," ","n","o","t"," ","t","o"," ","s","a","y">>

\* the Option Matcher ran: options given, the answer not flagged and not
\* verbatim in the list
MatcherInvoked ==
  /\ DetectorConsulted
  /\ ~_is_forbidden_answer(ParsedAnswer)
  /\ HasOptions(request.options)
  /\ ~InOptions(ParsedAnswer, request.options)

\* option j lower-cased and trimmed
OptionKey(j) == StrLower(StrStrip(request.options.items[j]))

OptionsAt(S) == {request.options.items[j] : j \in S}

\* step 1: the options that equal the answer, case and surrounding whitespace aside
EqualOptions ==
  {j \in 1..Len(request.options.items) : OptionKey(j) = StrLower(StrStrip(ParsedAnswer))}

\* step 2: the options that are a synonym of the answer in the synonym table
SynonymOptions ==
  {j \in 1..Len(request.options.items) :
     \E e \in 1..Len(synonym_map) :
       /\ synonym_map[e][1] = StrLower(StrStrip(ParsedAnswer))
       /\ \E k \in 1..Len(synonym_map[e][2]) : synonym_map[e][2][k] = OptionKey(j)}

\* step 3: the options that contain the lower-cased answer or are contained in it
ContainingOptions ==
  {j \in 1..Len(request.options.items) :
     \/ StrIn(OptionKey(j), StrLower(ParsedAnswer))
     \/ StrIn(StrLower(ParsedAnswer), OptionKey(j))}

MatcherSteps ==
  /\ EqualOptions # {} =>
       /\ outcome.response.answer \in OptionsAt(EqualOptions)
       /\ outcome.response.confidence = ParsedConfidence
  /\ (EqualOptions = {} /\ SynonymOptions # {}) =>
       /\ outcome.response.answer \in OptionsAt(SynonymOptions)
       /\ outcome.response.confidence = ParsedConfidence
  /\ (EqualOptions = {} /\ SynonymOptions = {} /\ ContainingOptions # {}) =>
       /\ outcome.response.answer = request.options.items[SetMin(ContainingOptions)]
       /\ outcome.response.confidence = ParsedConfidence
  /\ (EqualOptions = {} /\ SynonymOptions = {} /\ ContainingOptions = {}) =>
       /\ outcome.response.answer = _repair_answer(request.question, request.options, ParsedIntent)
       /\ outcome.response.confidence = IntMax(ParsedConfidence, 75)

\* C14: when options are given and the model answer is not verbatim in the
\* list, the answer is resolved by the first succeeding step of: equality with
\* an option, case and surrounding whitespace aside; the synonym table;
\* substring containment either way, the first option in list order winning;
\* the Answer Repairer, the confidence raised to at least 0.75.  The
\* confidence is unchanged when one of the first three steps succeeds.
C14_MatcherStepsInOrder == MatcherInvoked => MatcherSteps

\* the same, for the lists that hold no blank option
C14_MatcherStepsNoBlankOption ==
  (MatcherInvoked /\ \A j \in 1..Len(request.options.items) : OptionKey(j) # <<>>) => MatcherSteps

\* the options equal to a canonical token of the synonym table that lists the
\* answer among its synonyms
CanonicalOptions ==
  {j \in 1..Len(request.options.items) :
     \E e \in 1..Len(synonym_map) :
       /\ synonym_map[e][1] = OptionKey(j)
       /\ \E k \in 1..Len(synonym_map[e][2]) :
            synonym_map[e][2][k] = StrLower(StrStrip(ParsedAnswer))}

\* C15: an answer that the synonym table lists as equivalent to a canonical
\* token is resolved by the synonym step to the option equal to that token,
\* not by the repair fallback: with options Yes and No and the answer
\* "authorized" the matcher gives the option Yes, the confidence unchanged.
C15_SynonymResolvesToCanonical ==
  (MatcherInvoked /\ EqualOptions = {} /\ CanonicalOptions # {}) =>
    /\ outcome.response.answer \in OptionsAt(CanonicalOptions)
    /\ outcome.response.confidence = ParsedConfidence

\* the model's answer, trimmed, is verbatim in a non-empty option list
AnswerVerbatimInOptions ==
  /\ DetectorConsulted
  /\ HasOptions(request.options)
  /\ InOptions(ParsedAnswer, request.options)

AnswerKept ==
  /\ outcome.response.answer = ParsedAnswer
  /\ outcome.response.confidence = ParsedConfidence

\* C16 as stated: for every non-empty option list and every model answer
\* already verbatim in the list, predict_answer returns that answer unchanged,
\* with the confidence clamped to [0.70, 0.99] and not otherwise adjusted.
C16_VerbatimAnswerKept == AnswerVerbatimInOptions => AnswerKept

\* C16 as amended: the same, for the answers that the detector does not flag.
C16_UnflaggedVerbatimAnswerKept ==
  (AnswerVerbatimInOptions /\ ~_is_forbidden_answer(ParsedAnswer)) => AnswerKept

\* an answer verbatim in the list returned with a confidence under 0.75
C16_Witness ==
  /\ AnswerVerbatimInOptions
  /\ request.options = Options(<<<<" ","Y","E","S"," ">>, <<"N","o">>>>)
  /\ ParsedAnswer = <<"N","o">>
  /\ outcome.response.answer = <<"N","o">>
  /\ outcome.response.confidence = 72

(***************************************************************************)
(* Properties of every response of /predict, under Spec                    *)
(***************************************************************************)
\* C17: every response of /predict, from pattern memory as from the
\* Predictor, has a non-empty intent of the Allowed Intent Set, and a
\* non-empty answer whenever its confidence is above 0.0.
C17_ResponseWellFormed ==
  (Predicted /\ handled.status = 200) =>
    /\ handled.body.intent # <<>>
    /\ handled.body.intent \in ALLOWED_INTENTS
    /\ handled.body.confidence > 0 => handled.body.answer # <<>>

====
